---- MODULE Spec2Model ----
(***************************************************************************)
(* The four tensor utilities of utils.py: get_positional_encoding,         *)
(* get_look_ahead_mask, rel_shift and cache_memory.                        *)
(*                                                                         *)
(* A tensor is a record [shape, data]: data is the row-major flat buffer,  *)
(* which is what tf.reshape reinterprets.  Axes are numbered from 0 as in  *)
(* the source.  Every function runs one source line per action; pc holds   *)
(* the number of the next source line and locals the function's frame.     *)
(***************************************************************************)
EXTENDS Integers, Sequences, FiniteSets, TLC

VARIABLES pc, locals, ret, memory, mem0, history, mem_len, calls

vars == <<pc, locals, ret, memory, mem0, history, mem_len, calls>>

(* ---- bounds of the model ---- *)
MaxBatch == 2
MaxHeads == 2
MaxQLen == 4
MaxRLen == 3
MaxMLen == 3
MaxSeqLen == 4
MaxHiddenSize == 6
MaxHidden == 2
MaxMemLen == 3
MaxMSeqLen == 4
MaxEmbLen == 2
MaxCalls == 3

\* an optional argument: <<>> is None, <<n>> is the integer n
None == <<>>
Some(n) == <<n>>
Raised == [error |-> "InvalidArgumentError"]
NoTensor == [shape |-> <<0>>, data |-> <<>>]

(* ---- tensors ---- *)
Min(a, b) == IF a < b THEN a ELSE b
Max(a, b) == IF a > b THEN a ELSE b

RECURSIVE Prod(_)
Prod(s) == IF s = <<>> THEN 1 ELSE Head(s) * Prod(Tail(s))

Size(shape) == Prod(shape)

Stride(shape, k) == Prod(SubSeq(shape, k + 1, Len(shape)))

\* flat offset n (from 0) -> index vector (each from 0)
Unravel(n, shape) == [k \in 1..Len(shape) |-> (n \div Stride(shape, k)) % shape[k]]

RECURSIVE RavelFrom(_, _, _)
RavelFrom(idx, shape, k) ==
  IF k > Len(shape) THEN 0
  ELSE idx[k] * Stride(shape, k) + RavelFrom(idx, shape, k + 1)

\* index vector -> flat offset (from 0)
Ravel(idx, shape) == RavelFrom(idx, shape, 1)

\* the index vectors of a tensor of this shape
Indices(shape) == {Unravel(n, shape) : n \in 0..(Size(shape) - 1)}

\* the tensor of this shape whose entry at index vector idx is f[idx]
Tensor(shape, f) ==
  [shape |-> shape, data |-> [n \in 1..Size(shape) |-> f[Unravel(n - 1, shape)]]]

At(t, idx) == t.data[Ravel(idx, t.shape) + 1]

\* tf.ones / tf.zeros
Fill(shape, v) == Tensor(shape, [idx \in Indices(shape) |-> v])

\* variant of band_part with rows and columns exchanged in the band test
BandPartSwapped(t, num_lower, num_upper) ==
  LET f(idx) ==
        IF /\ (num_lower < 0 \/ idx[2] - idx[1] <= num_lower)
           /\ (num_upper < 0 \/ idx[1] - idx[2] <= num_upper)
        THEN At(t, idx) ELSE 0
  IN Tensor(t.shape, [idx \in Indices(t.shape) |-> f(idx)])

\* tf.linalg.band_part on a matrix: a negative bound keeps the whole triangle
BandPart(t, num_lower, num_upper) ==
  LET f(idx) ==
        IF /\ (num_lower < 0 \/ idx[1] - idx[2] <= num_lower)
           /\ (num_upper < 0 \/ idx[2] - idx[1] <= num_upper)
        THEN At(t, idx) ELSE 0
  IN Tensor(t.shape, [idx \in Indices(t.shape) |-> f(idx)])

\* elementwise a - b
Sub(a, b) == Tensor(a.shape, [idx \in Indices(a.shape) |-> At(a, idx) - At(b, idx)])

\* tf.concat accepts operands of equal rank that agree off the axis
ConcatOK(a, b, axis) ==
  /\ Len(a.shape) = Len(b.shape)
  /\ \A k \in 1..Len(a.shape) : k # axis + 1 => a.shape[k] = b.shape[k]

\* variant of concat that puts the second operand first
ConcatOperandsSwapped(a, b, axis) ==
  LET da == b.shape[axis + 1]
      shape == [a.shape EXCEPT ![axis + 1] = a.shape[axis + 1] + da]
      f(idx) == IF idx[axis + 1] < da THEN At(b, idx)
                ELSE At(a, [idx EXCEPT ![axis + 1] = idx[axis + 1] - da])
  IN Tensor(shape, [idx \in Indices(shape) |-> f(idx)])

Concat(a, b, axis) ==
  LET da == a.shape[axis + 1]
      shape == [a.shape EXCEPT ![axis + 1] = da + b.shape[axis + 1]]
      f(idx) == IF idx[axis + 1] < da THEN At(a, idx)
                ELSE At(b, [idx EXCEPT ![axis + 1] = idx[axis + 1] - da])
  IN Tensor(shape, [idx \in Indices(shape) |-> f(idx)])

\* t[tf.newaxis, tf.newaxis, :, :]
NewAxis2(t) == [shape |-> <<1, 1>> \o t.shape, data |-> t.data]

\* variant of pad that puts all the padding after the data
PadAfter(t, paddings) ==
  LET shape == [k \in 1..Len(t.shape) |-> paddings[k][1] + t.shape[k] + paddings[k][2]]
      f(idx) == IF \A k \in 1..Len(shape) : idx[k] < t.shape[k]
                THEN At(t, idx) ELSE 0
  IN Tensor(shape, [idx \in Indices(shape) |-> f(idx)])

\* tf.pad with zeros; paddings[k] = <<before, after>> for axis k-1
Pad(t, paddings) ==
  LET shape == [k \in 1..Len(t.shape) |-> paddings[k][1] + t.shape[k] + paddings[k][2]]
      src(idx) == [k \in 1..Len(shape) |-> idx[k] - paddings[k][1]]
      f(idx) == IF \A k \in 1..Len(shape) : src(idx)[k] >= 0 /\ src(idx)[k] < t.shape[k]
                THEN At(t, src(idx)) ELSE 0
  IN Tensor(shape, [idx \in Indices(shape) |-> f(idx)])

\* tf.reshape keeps the flat buffer; the sizes must agree
ReshapeOK(t, shape) == Size(shape) = Size(t.shape)

Reshape(t, shape) == [shape |-> shape, data |-> t.data]

\* variant of the begin rule in which a begin before the axis gives an empty slice
SliceBeginEmpty(begin, dim) ==
  IF begin < 0 THEN (IF begin + dim < 0 THEN dim ELSE begin + dim) ELSE Min(begin, dim)

\* where a slice that starts at `begin` starts in an axis of length dim:
\* a negative begin counts from the end, and the result is clamped to 0..dim
SliceBegin(begin, dim) ==
  IF begin < 0 THEN Max(begin + dim, 0) ELSE Min(begin, dim)

\* variant of the slice that keeps the leading part of the axis instead
SliceKeepHead(t, axis, begin) ==
  LET b == SliceBegin(begin, t.shape[axis + 1])
      shape == [t.shape EXCEPT ![axis + 1] = t.shape[axis + 1] - b]
      f(idx) == At(t, idx)
  IN Tensor(shape, [idx \in Indices(shape) |-> f(idx)])

\* t[..., begin:, ...] along axis
Slice(t, axis, begin) ==
  LET b == SliceBegin(begin, t.shape[axis + 1])
      shape == [t.shape EXCEPT ![axis + 1] = t.shape[axis + 1] - b]
      f(idx) == At(t, [idx EXCEPT ![axis + 1] = idx[axis + 1] + b])
  IN Tensor(shape, [idx \in Indices(shape) |-> f(idx)])

CeilDiv(a, b) == (a + b - 1) \div b

\* variant of range that includes the limit
RangeToLimit(start, limit, delta) ==
  LET span == IF delta > 0 THEN limit - start ELSE start - limit
      step == IF delta > 0 THEN delta ELSE -delta
      count == IF span >= 0 THEN (span \div step) + 1 ELSE 0
  IN [shape |-> <<count>>, data |-> [k \in 1..count |-> start + (k - 1) * delta]]

\* variant of range that rounds the element count down
RangeFloor(start, limit, delta) ==
  LET span == IF delta > 0 THEN limit - start ELSE start - limit
      step == IF delta > 0 THEN delta ELSE -delta
      count == IF span > 0 THEN span \div step ELSE 0
  IN [shape |-> <<count>>, data |-> [k \in 1..count |-> start + (k - 1) * delta]]

\* tf.range(start, limit, delta): start, start + delta, ... short of limit
Range(start, limit, delta) ==
  LET span == IF delta > 0 THEN limit - start ELSE start - limit
      step == IF delta > 0 THEN delta ELSE -delta
      count == IF span > 0 THEN CeilDiv(span, step) ELSE 0
  IN [shape |-> <<count>>, data |-> [k \in 1..count |-> start + (k - 1) * delta]]


\* tf.einsum('i,j->ij', a, b): the outer product, each entry kept as the pair
\* of its factors
Outer(a, b) ==
  LET shape == <<a.shape[1], b.shape[1]>>
      f(idx) == [distance |-> a.data[idx[1] + 1], inverse_frequency |-> b.data[idx[2] + 1]]
  IN Tensor(shape, [idx \in Indices(shape) |-> f(idx)])

\* 1 / (10000 ** (x / hidden_size)), kept as the exponent's fraction
InverseFrequency(x, hidden_size) == [base |-> 10000, num |-> x, den |-> hidden_size]

\* 1 / (10000 ** (t / hidden_size)), elementwise
InverseFrequencies(t, hidden_size) ==
  [shape |-> t.shape,
   data |-> [n \in 1..Len(t.data) |-> InverseFrequency(t.data[n], hidden_size)]]

\* sin and cos are kept as terms over their argument
Sin(x) == [fn |-> "sin", angle |-> x]
Cos(x) == [fn |-> "cos", angle |-> x]

\* tf.sin, tf.cos: elementwise
SinOf(t) == [shape |-> t.shape, data |-> [n \in 1..Len(t.data) |-> Sin(t.data[n])]]
CosOf(t) == [shape |-> t.shape, data |-> [n \in 1..Len(t.data) |-> Cos(t.data[n])]]

(* ---- the caller's variables, used by cache_memory only ---- *)
CallerIdle ==
  /\ memory = NoTensor
  /\ mem0 = NoTensor
  /\ history = NoTensor
  /\ mem_len = None
  /\ calls = 0

(***************************************************************************)
(* get_look_ahead_mask(q_seq_len, m_seq_len)                               *)
(***************************************************************************)
InitMask ==
  /\ pc = "52"
  /\ \E q \in 0..MaxQLen, m \in 0..MaxMLen :
       locals = [q_seq_len |-> q, m_seq_len |-> m]
  /\ ret = NoTensor
  /\ CallerIdle

Mask52 ==
  /\ pc = "52"
  /\ locals' = locals @@ [mask |-> Fill(<<locals.q_seq_len, locals.q_seq_len>>, 1)]
  /\ pc' = "53"
  /\ UNCHANGED <<ret, memory, mem0, history, mem_len, calls>>

Mask53 ==
  /\ pc = "53"
  /\ locals' = locals @@ [mask_u |-> BandPart(locals.mask, 0, -1)]
  /\ pc' = "54"
  /\ UNCHANGED <<ret, memory, mem0, history, mem_len, calls>>

Mask54 ==
  /\ pc = "54"
  /\ locals' = locals @@ [mask_dia |-> BandPart(locals.mask, 0, 0)]
  /\ pc' = "55"
  /\ UNCHANGED <<ret, memory, mem0, history, mem_len, calls>>

Mask55 ==
  /\ pc = "55"
  /\ locals' = locals @@ [mask_pad |-> Fill(<<locals.q_seq_len, locals.m_seq_len>>, 0)]
  /\ pc' = "56"
  /\ UNCHANGED <<ret, memory, mem0, history, mem_len, calls>>

Mask56 ==
  /\ pc = "56"
  /\ LET diff == Sub(locals.mask_u, locals.mask_dia) IN
       IF ConcatOK(locals.mask_pad, diff, 1)
       THEN /\ locals' = locals @@ [look_ahead_mask |-> Concat(locals.mask_pad, diff, 1)]
            /\ pc' = "57"
            /\ ret' = ret
       ELSE /\ locals' = locals
            /\ pc' = "raised"
            /\ ret' = Raised
  /\ UNCHANGED <<memory, mem0, history, mem_len, calls>>

Mask57 ==
  /\ pc = "57"
  /\ locals' = [locals EXCEPT !.look_ahead_mask = NewAxis2(locals.look_ahead_mask)]
  /\ pc' = "58"
  /\ UNCHANGED <<ret, memory, mem0, history, mem_len, calls>>

Mask58 ==
  /\ pc = "58"
  /\ ret' = locals.look_ahead_mask
  /\ pc' = "done"
  /\ UNCHANGED <<locals, memory, mem0, history, mem_len, calls>>

NextMask == Mask52 \/ Mask53 \/ Mask54 \/ Mask55 \/ Mask56 \/ Mask57 \/ Mask58

SpecMask == InitMask /\ [][NextMask]_vars

MaskReturned == pc = "done" /\ "look_ahead_mask" \in DOMAIN locals

\* C1: get_look_ahead_mask returns shape [1, 1, q_seq_len, m_seq_len + q_seq_len]
\* whose entry at row i, column k is 1 exactly when k > m_seq_len + i, else 0.
C1_MaskEntries ==
  MaskReturned =>
    /\ ret.shape = <<1, 1, locals.q_seq_len, locals.m_seq_len + locals.q_seq_len>>
    /\ \A i \in 0..(locals.q_seq_len - 1) :
         \A k \in 0..(locals.m_seq_len + locals.q_seq_len - 1) :
           At(ret, <<0, 0, i, k>>) = IF k > locals.m_seq_len + i THEN 1 ELSE 0

\* the spec's example: q_seq_len = 2, m_seq_len = 3
C1_Witness ==
  /\ MaskReturned
  /\ locals.q_seq_len = 2
  /\ locals.m_seq_len = 3
  /\ ret.data = <<0, 0, 0, 0, 1, 0, 0, 0, 0, 0>>

(***************************************************************************)
(* rel_shift(inputs)                                                       *)
(***************************************************************************)
\* an input whose entries are all different: base, base + 1, ... in row-major order
Iota(shape, base) == Tensor(shape, [idx \in Indices(shape) |-> base + Ravel(idx, shape)])

InitShift ==
  /\ pc = "87"
  /\ \E b \in 1..MaxBatch, h \in 1..MaxHeads, q \in 0..MaxQLen, r \in 0..MaxRLen,
        base \in {0, 1} :
       locals = [inputs |-> Iota(<<b, h, q, r>>, base)]
  /\ ret = NoTensor
  /\ CallerIdle

Shift87 ==
  /\ pc = "87"
  /\ locals' = locals @@ [shape |-> locals.inputs.shape]
  /\ pc' = "88"
  /\ UNCHANGED <<ret, memory, mem0, history, mem_len, calls>>

Shift88 ==
  /\ pc = "88"
  /\ locals' = locals @@
       [padded |-> Pad(locals.inputs, <<<<0, 0>>, <<0, 0>>, <<0, 0>>, <<1, 0>>>>)]
  /\ pc' = "89"
  /\ UNCHANGED <<ret, memory, mem0, history, mem_len, calls>>

Shift89 ==
  /\ pc = "89"
  /\ LET shape == locals.shape
         target == <<shape[1], shape[2], shape[4] + 1, shape[3]>> IN
       IF ReshapeOK(locals.padded, target)
       THEN /\ locals' = locals @@ [reshaped |-> Reshape(locals.padded, target)]
            /\ pc' = "90"
            /\ ret' = ret
       ELSE /\ locals' = locals
            /\ pc' = "raised"
            /\ ret' = Raised
  /\ UNCHANGED <<memory, mem0, history, mem_len, calls>>

Shift90 ==
  /\ pc = "90"
  /\ locals' = locals @@ [sliced |-> Slice(locals.reshaped, 2, 1)]
  /\ pc' = "91"
  /\ UNCHANGED <<ret, memory, mem0, history, mem_len, calls>>

Shift91 ==
  /\ pc = "91"
  /\ IF ReshapeOK(locals.sliced, locals.shape)
     THEN /\ locals' = locals @@ [outputs |-> Reshape(locals.sliced, locals.shape)]
          /\ pc' = "92"
          /\ ret' = ret
     ELSE /\ locals' = locals
          /\ pc' = "raised"
          /\ ret' = Raised
  /\ UNCHANGED <<memory, mem0, history, mem_len, calls>>

Shift92 ==
  /\ pc = "92"
  /\ ret' = locals.outputs
  /\ pc' = "done"
  /\ UNCHANGED <<locals, memory, mem0, history, mem_len, calls>>

NextShift == Shift87 \/ Shift88 \/ Shift89 \/ Shift90 \/ Shift91 \/ Shift92

SpecShift == InitShift /\ [][NextShift]_vars

ShiftFinished == pc \in {"done", "raised"} /\ "inputs" \in DOMAIN locals
ShiftReturned == pc = "done" /\ "inputs" \in DOMAIN locals
ShiftBatch == locals.inputs.shape[1]
ShiftHeads == locals.inputs.shape[2]
ShiftQ == locals.inputs.shape[3]
ShiftR == locals.inputs.shape[4]
ShiftExample == Iota(<<1, 1, 4, 3>>, 0)

\* C2: rel_shift returns the input's shape, and in each [q_len, r_len] slice
\* the element at flat position p is the element at flat position p + q_len of
\* the slice with a zero column prepended: 0 when (p + q_len) mod (r_len + 1)
\* is 0, else input[(p + q_len) div (r_len + 1)][(p + q_len) mod (r_len + 1) - 1].
\* The slice [[0,1,2],[3,4,5],[6,7,8],[9,10,11]] gives
\* [[0,3,4],[5,0,6],[7,8,0],[9,10,11]].
C2_ShiftFlatMap ==
  ShiftFinished =>
    /\ pc = "done"
    /\ ret.shape = locals.inputs.shape
    /\ \A b \in 0..(ShiftBatch - 1), h \in 0..(ShiftHeads - 1) :
         \A p \in 0..(ShiftQ * ShiftR - 1) :
           LET f == p + ShiftQ IN
             At(ret, <<b, h, p \div ShiftR, p % ShiftR>>) =
               IF f % (ShiftR + 1) = 0 THEN 0
               ELSE At(locals.inputs, <<b, h, f \div (ShiftR + 1), (f % (ShiftR + 1)) - 1>>)
    /\ locals.inputs = ShiftExample =>
         ret.data = <<0, 3, 4, 5, 0, 6, 7, 8, 0, 9, 10, 11>>

C2_Witness ==
  /\ ShiftReturned
  /\ locals.inputs.data = <<0, 1, 2, 3, 4, 5, 6, 7, 8, 9, 10, 11>>
  /\ locals.inputs.shape = <<1, 1, 4, 3>>
  /\ ret = [shape |-> <<1, 1, 4, 3>>, data |-> <<0, 3, 4, 5, 0, 6, 7, 8, 0, 9, 10, 11>>]

\* C8 as stated: row 0 of every output slice equals row 0 of the input slice.
C8_FirstRowUnchanged ==
  ShiftReturned =>
    \A b \in 0..(ShiftBatch - 1), h \in 0..(ShiftHeads - 1) :
      \A j \in 0..(ShiftR - 1) :
        ShiftQ >= 1 => At(ret, <<b, h, 0, j>>) = At(locals.inputs, <<b, h, 0, j>>)

\* C8 amended: rel_shift leaves the last row unchanged: row q_len - 1 of every
\* output slice equals row q_len - 1 of the input slice.
C8_LastRowUnchanged ==
  ShiftReturned =>
    \A b \in 0..(ShiftBatch - 1), h \in 0..(ShiftHeads - 1) :
      \A j \in 0..(ShiftR - 1) :
        ShiftQ >= 1 =>
          At(ret, <<b, h, ShiftQ - 1, j>>) = At(locals.inputs, <<b, h, ShiftQ - 1, j>>)

\* a call on slices of several rows whose first row changed and whose last did not
C8_Witness ==
  /\ ShiftReturned
  /\ ShiftQ = 4
  /\ ShiftR = 3
  /\ ShiftBatch = 2
  /\ At(ret, <<1, 0, 0, 1>>) # At(locals.inputs, <<1, 0, 0, 1>>)
  /\ \A j \in 0..2 : At(ret, <<1, 0, 3, j>>) = At(locals.inputs, <<1, 0, 3, j>>)

\* C10: in every slice, for every row i and column j with
\* j + (q_len - 1 - i) < r_len, output[i][j] = input[i][j + (q_len - 1 - i)]:
\* row i is shifted left by q_len - 1 - i positions.
C10_ShiftAlignment ==
  ShiftReturned =>
    \A b \in 0..(ShiftBatch - 1), h \in 0..(ShiftHeads - 1) :
      \A i \in 0..(ShiftQ - 1), j \in 0..(ShiftR - 1) :
        j + (ShiftQ - 1 - i) < ShiftR =>
          At(ret, <<b, h, i, j>>) = At(locals.inputs, <<b, h, i, j + (ShiftQ - 1 - i)>>)

\* a row that is shifted by one position: output[1][0] = input[1][1]
C10_Witness ==
  /\ ShiftReturned
  /\ ShiftQ = 3
  /\ ShiftR = 3
  /\ At(ret, <<0, 0, 1, 0>>) = At(locals.inputs, <<0, 0, 1, 1>>)
  /\ At(ret, <<0, 0, 1, 0>>) # At(locals.inputs, <<0, 0, 1, 0>>)

(***************************************************************************)
(* get_positional_encoding(seq_len, hidden_size)                           *)
(***************************************************************************)
InitPE ==
  /\ pc = "16"
  /\ \E n \in 0..MaxSeqLen, h \in 1..MaxHiddenSize :
       locals = [seq_len |-> n, hidden_size |-> h]
  /\ ret = NoTensor
  /\ CallerIdle

PE16 ==
  /\ pc = "16"
  /\ locals' = locals @@ [distances |-> Range(locals.seq_len - 1, -1, -1)]
  /\ pc' = "17"
  /\ UNCHANGED <<ret, memory, mem0, history, mem_len, calls>>

PE17 ==
  /\ pc = "17"
  /\ locals' = locals @@
       [inverse_frequencies |->
          InverseFrequencies(Range(0, locals.hidden_size, 2), locals.hidden_size)]
  /\ pc' = "19"
  /\ UNCHANGED <<ret, memory, mem0, history, mem_len, calls>>

PE19 ==
  /\ pc = "19"
  /\ locals' = locals @@
       [positional_encoding |-> Outer(locals.distances, locals.inverse_frequencies)]
  /\ pc' = "20"
  /\ UNCHANGED <<ret, memory, mem0, history, mem_len, calls>>

PE20 ==
  /\ pc = "20"
  /\ LET s == SinOf(locals.positional_encoding)
         c == CosOf(locals.positional_encoding) IN
       IF ConcatOK(s, c, 1)
       THEN /\ locals' = [locals EXCEPT !.positional_encoding = Concat(s, c, 1)]
            /\ pc' = "23"
            /\ ret' = ret
       ELSE /\ locals' = locals
            /\ pc' = "raised"
            /\ ret' = Raised
  /\ UNCHANGED <<memory, mem0, history, mem_len, calls>>

PE23 ==
  /\ pc = "23"
  /\ ret' = locals.positional_encoding
  /\ pc' = "done"
  /\ UNCHANGED <<locals, memory, mem0, history, mem_len, calls>>

NextPE == PE16 \/ PE17 \/ PE19 \/ PE20 \/ PE23

SpecPE == InitPE /\ [][NextPE]_vars

PEFinished == pc \in {"done", "raised"} /\ "hidden_size" \in DOMAIN locals
PEReturned == pc = "done" /\ "hidden_size" \in DOMAIN locals

\* C6: for positive seq_len and positive even hidden_size the result has shape
\* [seq_len, hidden_size]: row i is for distance seq_len - 1 - i, and the
\* columns are hidden_size/2 sin columns followed by hidden_size/2 cos columns.
C6_PEShape ==
  (PEFinished /\ locals.seq_len >= 1 /\ locals.hidden_size % 2 = 0) =>
    /\ pc = "done"
    /\ ret.shape = <<locals.seq_len, locals.hidden_size>>
    /\ \A i \in 0..(locals.seq_len - 1), c \in 0..(locals.hidden_size - 1) :
         /\ At(ret, <<i, c>>).fn =
              IF c < locals.hidden_size \div 2 THEN "sin" ELSE "cos"
         /\ At(ret, <<i, c>>).angle.distance = locals.seq_len - 1 - i

C6_Witness ==
  /\ PEReturned
  /\ locals.seq_len = 3
  /\ locals.hidden_size = 4
  /\ ret.shape = <<3, 4>>
  /\ At(ret, <<0, 1>>) = Sin([distance |-> 2, inverse_frequency |-> InverseFrequency(2, 4)])
  /\ At(ret, <<2, 2>>) = Cos([distance |-> 0, inverse_frequency |-> InverseFrequency(0, 4)])

TimeStep(b, t, x) == t * 100 + b * 10 + x

\* the time steps first, first + 1, ..., first + len - 1 as [batch, len, hidden]
Segment(batch, first, len, hidden) ==
  LET shape == <<batch, len, hidden>>
  IN Tensor(shape, [idx \in Indices(shape) |-> TimeStep(idx[1], first + idx[2], idx[3])])

\* tf.stop_gradient: the forward value is its argument
StopGradient(t) == t

NoLocals == <<>>

InitCache ==
  /\ pc = "idle"
  /\ locals = NoLocals
  /\ ret = NoTensor
  /\ \E batch \in 1..MaxBatch, hidden \in 1..MaxHidden, m \in 0..MaxMemLen :
       /\ memory = Segment(batch, 0, m, hidden)
       /\ mem0 = memory
       /\ history = memory
  /\ mem_len \in {None} \cup {Some(m) : m \in 0..MaxMSeqLen}
  /\ calls = 0

\* the caller calls cache_memory(memory, embeddings, mem_len) on a new segment
CacheCall ==
  /\ pc = "idle"
  /\ calls < MaxCalls
  /\ \E q \in 0..MaxEmbLen :
       locals' = [memory |-> memory,
                  embeddings |-> Segment(memory.shape[1], history.shape[2], q,
                                         memory.shape[3]),
                  m_seq_len |-> mem_len]
  /\ pc' = "109"
  /\ calls' = calls + 1
  /\ UNCHANGED <<ret, memory, mem0, history, mem_len>>

Cache109 ==
  /\ pc = "109"
  /\ locals' = IF locals.m_seq_len = None
               THEN [locals EXCEPT !.m_seq_len = Some(locals.memory.shape[2])]
               ELSE locals
  /\ pc' = "111"
  /\ UNCHANGED <<ret, memory, mem0, history, mem_len, calls>>

Cache111 ==
  /\ pc = "111"
  /\ IF ConcatOK(locals.memory, locals.embeddings, 1)
     THEN /\ locals' = locals @@
               [new_memory |->
                  StopGradient(Slice(Concat(locals.memory, locals.embeddings, 1),
                                     1, -locals.m_seq_len[1]))]
          /\ pc' = "113"
          /\ ret' = ret
     ELSE /\ locals' = locals
          /\ pc' = "raised"
          /\ ret' = Raised
  /\ UNCHANGED <<memory, mem0, history, mem_len, calls>>

Cache113 ==
  /\ pc = "113"
  /\ ret' = locals.new_memory
  /\ pc' = "returned"
  /\ UNCHANGED <<locals, memory, mem0, history, mem_len, calls>>

\* the caller keeps the result as the memory of the next call
CacheFeedBack ==
  /\ pc = "returned"
  /\ memory' = ret
  /\ history' = Segment(history.shape[1],
                        0, history.shape[2] + locals.embeddings.shape[2],
                        history.shape[3])
  /\ pc' = "idle"
  /\ UNCHANGED <<locals, ret, mem0, mem_len, calls>>

NextCache == CacheCall \/ Cache109 \/ Cache111 \/ Cache113 \/ CacheFeedBack

SpecCache == InitCache /\ [][NextCache]_vars

CacheFinished == pc \in {"returned", "raised"}
CacheReturned == pc = "returned"
CacheBatch == locals.memory.shape[1]
CacheHidden == locals.memory.shape[3]
MLenOld == locals.memory.shape[2]
QLen == locals.embeddings.shape[2]
CatLen == MLenOld + QLen
\* entry (b, t, x) of memory followed by embeddings along the time axis
Cat(b, t, x) ==
  IF t < MLenOld THEN At(locals.memory, <<b, t, x>>)
  ELSE At(locals.embeddings, <<b, t - MLenOld, x>>)
\* ret is the last n time steps of memory followed by embeddings
ReturnsLast(n) ==
  /\ ret.shape = <<CacheBatch, n, CacheHidden>>
  /\ \A b \in 0..(CacheBatch - 1), k \in 0..(n - 1), x \in 0..(CacheHidden - 1) :
       At(ret, <<b, k, x>>) = Cat(b, CatLen - n + k, x)

\* C3: for every non-negative m_seq_len not exceeding m_len_old + q_len the
\* result has time-length exactly m_seq_len and equals the last m_seq_len time
\* steps of memory followed by embeddings.
C3_ReturnsLastMSeqLen ==
  (CacheFinished /\ locals.m_seq_len[1] <= CatLen) =>
    /\ pc = "returned"
    /\ ReturnsLast(locals.m_seq_len[1])

\* C4: with m_seq_len left at its default and each result fed back as the next
\* memory, the memory's time-length after every call is the initial memory's.
C4_FixedLengthWindow ==
  (mem_len = None /\ pc = "idle") => memory.shape[2] = mem0.shape[2]

\* C5: when m_seq_len is larger than the time-length of memory followed by
\* embeddings, no error is raised and the whole concatenation is returned.
C5_LargerThanConcatenation ==
  (CacheFinished /\ locals.m_seq_len[1] > CatLen) =>
    /\ pc = "returned"
    /\ ReturnsLast(CatLen)

C5_Witness ==
  /\ CacheReturned
  /\ MLenOld = 1
  /\ QLen = 2
  /\ locals.m_seq_len = Some(4)
  /\ ret.shape[2] = 3

\* C9: with the same explicit m_seq_len = M >= 1 at every call and each result
\* fed back as the next memory, the memory after the n-th call (n >= 1) is the
\* last min(M, L) time steps of mem0 ++ e1 ++ ... ++ en, L being its length.
C9_SlidingWindow ==
  (pc = "idle" /\ calls >= 1 /\ mem_len # None /\ mem_len[1] >= 1) =>
    LET L == history.shape[2]
        n == Min(mem_len[1], L) IN
      /\ memory.shape = <<history.shape[1], n, history.shape[3]>>
      /\ \A b \in 0..(history.shape[1] - 1), k \in 0..(n - 1),
            x \in 0..(history.shape[3] - 1) :
           At(memory, <<b, k, x>>) = At(history, <<b, L - n + k, x>>)

\* two calls whose window dropped time steps from the oldest end only
C9_Witness ==
  /\ pc = "idle"
  /\ calls = 2
  /\ mem_len = Some(2)
  /\ history.shape[2] = 5
  /\ mem0.shape[2] = 3
  /\ memory.shape[2] = 2
  /\ At(memory, <<0, 0, 0>>) = TimeStep(0, 3, 0)

====
